---- MODULE Spec2Model ----
(***************************************************************************)
(* Model of src/server.py: the Databento NQ + MNQ price server.            *)
(*                                                                         *)
(* One feed worker (run_live_feed -> process_record -> update_candle)      *)
(* writes the module-level state; HTTP handlers (get_live_price,           *)
(* get_candles, get_ticks) read it from other threads.  The worker is      *)
(* modelled one shared-memory write per step, so that readers interleave   *)
(* exactly where the threads of the program can.                           *)
(*                                                                         *)
(* Numbers.  Fixed-point wire prices (1e-9 units in the program) are       *)
(* carried in 1e-4 units (every input drawn is a multiple of 1e5 on the    *)
(* wire); prices after round(p, 2) are carried in cents.  Python None is   *)
(* the integer None below; an optional dict (current_candle[symbol]) is a  *)
(* sequence of length 0 or 1; strings that the code searches with `in`     *)
(* are sequences of characters.                                            *)
(***************************************************************************)
EXTENDS Integers, Sequences, FiniteSets, TLC

(***************************************************************************)
(* Bounds of the model.                                                    *)
(***************************************************************************)
MaxRecords == 3        \* records delivered by the transport, Spec
MaxSessions == 2       \* connect attempts, Spec
MaxTime == 110         \* last wall-clock second, Spec

(***************************************************************************)
(* Program constants.                                                      *)
(***************************************************************************)
Unit == 10000               \* model units per point of a wire price
Cent == 100                 \* cents per point, round(p, 2)
PriceFloor == 1000          \* p > 1000
MaxSpread == 10             \* spread < 10
SpikeThreshold == 50        \* abs(price - prev) > 50
CandleSpike == 30           \* abs(price - mid) > 30
CandleSeconds == 60         \* ts_seconds // 60 * 60
CandleMaxLen == 1440        \* deque(maxlen=1440)
TickMaxLen == 10000         \* deque(maxlen=10000)
CandleLimitMax == 1440      \* min(int(limit), 1440)
TickLimitMax == 10000       \* min(int(limit), 10000)

None == -1
NoError == "None"
KeyError == "DATABENTO_API_KEY not set"

Symbols == {"NQ", "MNQ"}

Truthy(x) == x # None /\ x # 0

Abs(x) == IF x < 0 THEN -x ELSE x

Max(a, b) == IF a >= b THEN a ELSE b

Min(a, b) == IF a <= b THEN a ELSE b

(***************************************************************************)
(* Strings and the substring test `tok in s`.                              *)
(***************************************************************************)
MNQ_TOKEN == <<"M", "N", "Q">>
NQ_TOKEN == <<"N", "Q">>

Contains(tok, s) ==
    \E i \in 0..(Len(s) - Len(tok)) : SubSeq(s, i + 1, i + Len(tok)) = tok

(***************************************************************************)
(* round(x / d) to the nearest integer, ties to even (Python round()).     *)
(***************************************************************************)
RoundHalfEven(x, d) ==
    LET q == x \div d
        r == x % d
    IN  IF 2 * r < d THEN q
        ELSE IF 2 * r > d THEN q + 1
        ELSE IF q % 2 = 0 THEN q ELSE q + 1

ToCents(raw) == RoundHalfEven(raw, Unit \div Cent)

MidToCents(b, a) == RoundHalfEven(b + a, 2 * (Unit \div Cent))

get_candle_time_NoFloor(ts_seconds) == ts_seconds

get_candle_time(ts_seconds) == (ts_seconds \div CandleSeconds) * CandleSeconds

(***************************************************************************)
(* Decoded records of the transport.                                       *)
(***************************************************************************)
NoLevels == <<>>

MappingMsg(iid, stype) ==
    [has_stype |-> TRUE, stype_in_symbol |-> stype,
     has_iid |-> TRUE, instrument_id |-> iid,
     has_price |-> FALSE, price |-> 0,
     has_levels |-> FALSE, levels |-> NoLevels,
     size |-> 0, pretty_symbol |-> <<>>, raw_symbol |-> <<>>]

Mbp1Msg(iid, raw_symbol, price, bid_px, ask_px, size) ==
    [has_stype |-> FALSE, stype_in_symbol |-> <<>>,
     has_iid |-> TRUE, instrument_id |-> iid,
     has_price |-> TRUE, price |-> price,
     has_levels |-> TRUE, levels |-> <<[bid_px |-> bid_px, ask_px |-> ask_px]>>,
     size |-> size, pretty_symbol |-> <<>>, raw_symbol |-> raw_symbol]

NoRecord == MappingMsg(0, <<>>)

(***************************************************************************)
(* process_record, the part that computes locals (lines 88-119).           *)
(***************************************************************************)
TradePrice(r) ==
    IF r.has_price /\ Truthy(r.price) /\ r.price > PriceFloor * Unit
    THEN ToCents(r.price) ELSE None

LevelBid(r) ==
    LET raw_bid == r.levels[1].bid_px
    IN  IF Truthy(raw_bid) /\ raw_bid > 0 THEN raw_bid ELSE None

LevelAsk(r) ==
    LET raw_ask == r.levels[1].ask_px
    IN  IF Truthy(raw_ask) /\ raw_ask > 0 THEN raw_ask ELSE None

QuoteAccepted_Inclusive(r) ==
    /\ r.has_levels
    /\ Len(r.levels) > 0
    /\ Truthy(LevelBid(r)) /\ LevelBid(r) > PriceFloor * Unit
    /\ Truthy(LevelAsk(r)) /\ LevelAsk(r) > PriceFloor * Unit
    /\ LevelAsk(r) - LevelBid(r) <= MaxSpread * Unit

QuoteAccepted(r) ==
    /\ r.has_levels
    /\ Len(r.levels) > 0
    /\ Truthy(LevelBid(r)) /\ LevelBid(r) > PriceFloor * Unit
    /\ Truthy(LevelAsk(r)) /\ LevelAsk(r) > PriceFloor * Unit
    /\ LevelAsk(r) - LevelBid(r) < MaxSpread * Unit

ExtractBid(r) == IF QuoteAccepted(r) THEN ToCents(LevelBid(r)) ELSE None

ExtractAsk(r) == IF QuoteAccepted(r) THEN ToCents(LevelAsk(r)) ELSE None

ExtractPrice(r) ==
    IF TradePrice(r) # None THEN TradePrice(r)
    ELSE IF QuoteAccepted(r) THEN MidToCents(LevelBid(r), LevelAsk(r))
    ELSE None

ExtractVolume(r) == IF Truthy(r.size) THEN r.size ELSE 0

PricePlausible(price) == Truthy(price) /\ price > PriceFloor * Cent

IsSpike_Inclusive(price, prev) == Truthy(prev) /\ Abs(price - prev) >= SpikeThreshold * Cent

IsSpike(price, prev) == Truthy(prev) /\ Abs(price - prev) > SpikeThreshold * Cent

VolumeOr1_Raw(volume) == volume

VolumeOr1(volume) == IF Truthy(volume) THEN volume ELSE 1

(***************************************************************************)
(* run_live_feed, the instrument_id -> symbol mapping (lines 166-195).     *)
(***************************************************************************)
Put(map, k, v) ==
    [i \in DOMAIN map \cup {k} |-> IF i = k THEN v ELSE map[i]]

MapFromMetadata(map, r) ==
    IF r.has_stype /\ r.has_iid
    THEN IF Contains(MNQ_TOKEN, r.stype_in_symbol)
         THEN Put(map, r.instrument_id, "MNQ")
         ELSE IF Contains(NQ_TOKEN, r.stype_in_symbol)
              THEN Put(map, r.instrument_id, "NQ")
              ELSE map
    ELSE map

IsDataRecord(r) == r.has_price \/ r.has_levels

HintSymbol(val) ==
    IF Contains(MNQ_TOKEN, val) THEN "MNQ"
    ELSE IF Contains(NQ_TOKEN, val) THEN "NQ"
    ELSE ""

HintsSymbol(r) ==
    IF HintSymbol(r.pretty_symbol) # "" THEN HintSymbol(r.pretty_symbol)
    ELSE HintSymbol(r.raw_symbol)

ResolveSymbol(map, r) ==
    IF ~r.has_iid THEN "NQ"
    ELSE IF r.instrument_id \in DOMAIN map THEN map[r.instrument_id]
    ELSE IF HintsSymbol(r) # "" THEN HintsSymbol(r)
    ELSE "NQ"

MapFromHints(map, r) ==
    IF r.has_iid /\ r.instrument_id \notin DOMAIN map /\ HintsSymbol(r) # ""
    THEN Put(map, r.instrument_id, HintsSymbol(r))
    ELSE map

(***************************************************************************)
(* collections.deque(maxlen=n).append                                      *)
(***************************************************************************)
DequeAppend_Unbounded(d, x, maxlen) == d \o <<x>>

DequeAppend(d, x, maxlen) ==
    IF Len(d) >= maxlen THEN Tail(d) \o <<x>> ELSE d \o <<x>>

(***************************************************************************)
(* update_candle, the values it writes (lines 64-75, 79-83).               *)
(***************************************************************************)
NewCandle_CountsFromZero(candle_time, price, volume) ==
    [time |-> candle_time,
     open |-> price, high |-> price, low |-> price, close |-> price,
     volume |-> VolumeOr1(volume),
     tick_count |-> 0]

NewCandle(candle_time, price, volume) ==
    [time |-> candle_time,
     open |-> price, high |-> price, low |-> price, close |-> price,
     volume |-> VolumeOr1(volume),
     tick_count |-> 1]

NewHigh_Overwrite(cc, price) == price

NewHigh(cc, price) == Max(cc.high, price)

NewLow_Keep(cc, price) == cc.low

NewLow(cc, price) == Min(cc.low, price)

InCandleSpike(cc, price) == Abs(2 * price - (cc.high + cc.low)) > 2 * CandleSpike * Cent

NewTick(ts_seconds, price, volume) ==
    [time |-> ts_seconds, price |-> price, volume |-> VolumeOr1(volume)]

(***************************************************************************)
(* State.                                                                  *)
(*   symbols_data .. tick_buffer   the module-level objects of server.py   *)
(*   api_key                       os.environ.get('DATABENTO_API_KEY')     *)
(*   pc, record, sym, local, exc   the feed thread: position, the record   *)
(*                                 being handled, process_record's and     *)
(*                                 update_candle's locals, the exception   *)
(*   now                           the wall clock as last read             *)
(*   nrecords, nsessions           counters that bound the model           *)
(*   committed, uc_outcome, obs_seq, tick_total, pre                       *)
(*                                 history variables (not in the code):    *)
(*                                 the candles as of the feed's last       *)
(*                                 release of candle_lock, what the last   *)
(*                                 update_candle did, the observations     *)
(*                                 accepted (their number, and price,      *)
(*                                 volume, timestamp of each once all      *)
(*                                 three are stored), the number of        *)
(*                                 ticks ever appended, and the symbol's   *)
(*                                 state when process_record was entered;  *)
(*                                 applied lists, per symbol, the          *)
(*                                 observations update_candle has put      *)
(*                                 into a candle since the initial state   *)
(*                                 (bucket, price, size as passed)         *)
(*   rd                            one HTTP request handler                *)
(***************************************************************************)
VARIABLES symbols_data, feed_status, iid_to_symbol,
          candle_history, current_candle, candle_lock, tick_buffer,
          api_key, pc, record, sym, local, exc, now,
          nrecords, nsessions,
          committed, uc_outcome, obs_seq, tick_total, pre, applied,
          rd

shared == <<symbols_data, feed_status, iid_to_symbol,
            candle_history, current_candle, candle_lock, tick_buffer>>

feedvars == <<api_key, pc, record, sym, local, exc, now, nrecords, nsessions>>

feedrest == <<api_key, record, sym, local, exc, now, nrecords, nsessions>>

ghostvars == <<committed, uc_outcome, obs_seq, tick_total, pre, applied>>

vars == <<shared, feedvars, ghostvars, rd>>

StartTime == 10
ClockSteps == {50}
MsPerSecond == 1000

LiveQuoteInit ==
    [price |-> None, bid |-> None, ask |-> None, volume |-> 0,
     timestamp |-> None, last_update |-> None]

LocalInit ==
    [price |-> None, bid |-> None, ask |-> None, volume |-> 0,
     ts_seconds |-> 0, candle_time |-> 0]

EmptyMap == [i \in {} |-> ""]

LiveReply ==
    [price |-> None, bid |-> None, ask |-> None, volume |-> 0,
     timestamp |-> None, last_update |-> None, connected |-> FALSE, error |-> NoError]

(* the handler's locals (symbol, limit, candles, ticks, the reply of       *)
(* get_live_price) and, as history variables: req_limit the limit as       *)
(* requested, src the symbol the list was read from, full the list before  *)
(* truncation, expect the committed candles when the lock was taken,       *)
(* first_empty and empty_hist what the first read found, had_data whether  *)
(* the symbol had a complete observation when the request began, nreq the  *)
(* requests served                                                         *)
RdIdle ==
    [pc |-> "idle", symbol |-> "NQ", req_limit |-> 0, limit |-> 0, src |-> "NQ",
     candles |-> <<>>, ticks |-> <<>>, full |-> <<>>, expect |-> <<>>,
     first_empty |-> FALSE, empty_hist |-> FALSE,
     live |-> LiveReply, had_data |-> FALSE, nreq |-> 0]

InitShared ==
    /\ symbols_data = [s \in Symbols |-> LiveQuoteInit]
    /\ feed_status = [connected |-> FALSE, error |-> NoError]
    /\ iid_to_symbol = EmptyMap
    /\ candle_history = [s \in Symbols |-> <<>>]
    /\ current_candle = [s \in Symbols |-> <<>>]
    /\ candle_lock = "free"
    /\ tick_buffer = [s \in Symbols |-> <<>>]

InitFeed ==
    /\ api_key \in BOOLEAN
    /\ pc = "start"
    /\ record = NoRecord
    /\ sym = "NQ"
    /\ local = LocalInit
    /\ exc = NoError
    /\ now = StartTime
    /\ nrecords = 0
    /\ nsessions = 0

PreNone == [active |-> FALSE, quote |-> LiveQuoteInit, hist |-> <<>>, cur |-> <<>>, ticks |-> <<>>]

InitGhost ==
    /\ committed = [s \in Symbols |-> [hist |-> <<>>, cur |-> <<>>]]
    /\ uc_outcome = "none"
    /\ obs_seq = [s \in Symbols |-> [n |-> 0, log |-> {}]]
    /\ tick_total = [s \in Symbols |-> 0]
    /\ pre = PreNone
    /\ applied = [s \in Symbols |-> <<>>]

Init == InitShared /\ InitFeed /\ InitGhost /\ rd = RdIdle

(* the wall clock at a call of time.time(): time may have passed since     *)
(* the previous reading                                                    *)
ClockReadings(steps, maxTime) ==
    {t \in {now} \cup {now + d : d \in steps} : t <= maxTime}

(***************************************************************************)
(* run_live_feed                                                           *)
(***************************************************************************)
CheckKey_Proceeds ==
    /\ pc = "start"
    /\ feed_status' = [feed_status EXCEPT !.error = IF api_key THEN @ ELSE KeyError]
    /\ pc' = "connect"
    /\ UNCHANGED <<symbols_data, iid_to_symbol, candle_history, current_candle,
                   candle_lock, tick_buffer>>
    /\ UNCHANGED <<api_key, record, sym, local, exc, now, nrecords, nsessions>>
    /\ UNCHANGED <<ghostvars, rd>>

(* lines 138-142 *)
CheckKey ==
    /\ pc = "start"
    /\ IF api_key
       THEN /\ pc' = "connect"
            /\ UNCHANGED feed_status
       ELSE /\ feed_status' = [feed_status EXCEPT !.error = KeyError]
            /\ pc' = "exit"
    /\ UNCHANGED <<symbols_data, iid_to_symbol, candle_history, current_candle,
                   candle_lock, tick_buffer>>
    /\ UNCHANGED <<api_key, record, sym, local, exc, now, nrecords, nsessions>>
    /\ UNCHANGED <<ghostvars, rd>>

(* db.Live(key) and client.subscribe(...): succeed or raise *)
ConnectStep(ok) ==
    /\ pc = "connect"
    /\ IF ok THEN pc' = "set_connected" /\ exc' = exc
       ELSE pc' = "except" /\ exc' = "connect error"
    /\ UNCHANGED <<shared, api_key, record, sym, local, now, nrecords>>
    /\ UNCHANGED <<ghostvars, rd>>

(* a connect attempt, counted: at most maxSessions of them *)
Connect(maxSessions) ==
    /\ nsessions < maxSessions
    /\ nsessions' = nsessions + 1
    /\ \E ok \in BOOLEAN : ConnectStep(ok)

SetConnected ==
    /\ pc = "set_connected"
    /\ feed_status' = [feed_status EXCEPT !.connected = TRUE]
    /\ pc' = "clear_error"
    /\ UNCHANGED <<symbols_data, iid_to_symbol, candle_history, current_candle,
                   candle_lock, tick_buffer>>
    /\ UNCHANGED <<api_key, record, sym, local, exc, now, nrecords, nsessions>>
    /\ UNCHANGED <<ghostvars, rd>>

ClearError ==
    /\ pc = "clear_error"
    /\ feed_status' = [feed_status EXCEPT !.error = NoError]
    /\ pc' = "consume"
    /\ UNCHANGED <<symbols_data, iid_to_symbol, candle_history, current_candle,
                   candle_lock, tick_buffer>>
    /\ UNCHANGED <<api_key, record, sym, local, exc, now, nrecords, nsessions>>
    /\ UNCHANGED <<ghostvars, rd>>

(* for record in client: the next record, lines 163-197 up to the call of  *)
(* process_record                                                          *)
NextRecord(R, maxRecords) ==
    /\ pc = "consume"
    /\ nrecords < maxRecords
    /\ nrecords' = nrecords + 1
    /\ \E r \in R :
          LET map1 == MapFromMetadata(iid_to_symbol, r)
          IN  IF IsDataRecord(r)
              THEN /\ iid_to_symbol' = MapFromHints(map1, r)
                   /\ sym' = ResolveSymbol(map1, r)
                   /\ record' = r
                   /\ pc' = "pr_quote"
                   /\ pre' = [active |-> TRUE,
                              quote |-> symbols_data[ResolveSymbol(map1, r)],
                              hist |-> candle_history[ResolveSymbol(map1, r)],
                              cur |-> current_candle[ResolveSymbol(map1, r)],
                              ticks |-> tick_buffer[ResolveSymbol(map1, r)]]
              ELSE /\ iid_to_symbol' = map1
                   /\ UNCHANGED <<sym, record, pre>>
                   /\ pc' = "consume"
    /\ UNCHANGED <<symbols_data, feed_status, candle_history, current_candle,
                   candle_lock, tick_buffer>>
    /\ UNCHANGED <<api_key, local, exc, now, nsessions>>
    /\ UNCHANGED <<committed, uc_outcome, obs_seq, tick_total, applied, rd>>

(* the record iterator raises: a read error, a disconnect *)
StreamError ==
    /\ pc = "consume"
    /\ pc' = "except"
    /\ exc' = "read error"
    /\ UNCHANGED <<shared, api_key, record, sym, local, now, nrecords, nsessions>>
    /\ UNCHANGED <<ghostvars, rd>>

(* the record iterator ends without raising: while True starts over *)
StreamEnd ==
    /\ pc = "consume"
    /\ pc' = "connect"
    /\ UNCHANGED <<shared, api_key, record, sym, local, exc, now, nrecords, nsessions>>
    /\ UNCHANGED <<ghostvars, rd>>

(* line 204 *)
ExceptConnected ==
    /\ pc = "except"
    /\ feed_status' = [feed_status EXCEPT !.connected = FALSE]
    /\ pc' = "except_error"
    /\ UNCHANGED <<symbols_data, iid_to_symbol, candle_history, current_candle,
                   candle_lock, tick_buffer>>
    /\ UNCHANGED <<api_key, record, sym, local, exc, now, nrecords, nsessions>>
    /\ UNCHANGED <<ghostvars, rd>>

ExceptError ==
    /\ pc = "except_error"
    /\ feed_status' = [feed_status EXCEPT !.error = exc]
    /\ exc' = NoError
    /\ pc' = "sleep"
    /\ UNCHANGED <<symbols_data, iid_to_symbol, candle_history, current_candle,
                   candle_lock, tick_buffer>>
    /\ UNCHANGED <<api_key, record, sym, local, now, nrecords, nsessions>>
    /\ UNCHANGED <<ghostvars, rd>>

(* time.sleep(5), then the next iteration of while True *)
Sleep ==
    /\ pc = "sleep"
    /\ pc' = "connect"
    /\ UNCHANGED <<shared, api_key, record, sym, local, exc, now, nrecords, nsessions>>
    /\ UNCHANGED <<ghostvars, rd>>

(***************************************************************************)
(* process_record(record, sym)                                             *)
(***************************************************************************)
CandleLockFree_Ignored == TRUE

CandleLockFree == candle_lock = "free"

SetQuote(s, field, v) == [symbols_data EXCEPT ![s][field] = v]

(* lines 87-114: the locals, and sd['bid'] when the quote is accepted *)
ProcQuote ==
    /\ pc = "pr_quote"
    /\ local' = [LocalInit EXCEPT !.price = ExtractPrice(record),
                                  !.bid = ExtractBid(record),
                                  !.ask = ExtractAsk(record)]
    /\ IF QuoteAccepted(record)
       THEN /\ symbols_data' = SetQuote(sym, "bid", ExtractBid(record))
            /\ pc' = "pr_ask"
       ELSE /\ UNCHANGED symbols_data
            /\ pc' = "pr_filter"
    /\ UNCHANGED <<feed_status, iid_to_symbol, candle_history, current_candle,
                   candle_lock, tick_buffer>>
    /\ UNCHANGED <<api_key, record, sym, exc, now, nrecords, nsessions>>
    /\ UNCHANGED <<ghostvars, rd>>

(* line 115 *)
ProcAsk ==
    /\ pc = "pr_ask"
    /\ symbols_data' = SetQuote(sym, "ask", local.ask)
    /\ pc' = "pr_filter"
    /\ UNCHANGED <<feed_status, iid_to_symbol, candle_history, current_candle,
                   candle_lock, tick_buffer>>
    /\ UNCHANGED <<api_key, record, sym, local, exc, now, nrecords, nsessions>>
    /\ UNCHANGED <<ghostvars, rd>>

(* lines 117-127: the size, the plausibility and spike tests, sd['price'] *)
ProcFilter ==
    /\ pc = "pr_filter"
    /\ IF PricePlausible(local.price) /\ ~IsSpike(local.price, symbols_data[sym].price)
       THEN /\ symbols_data' = SetQuote(sym, "price", local.price)
            /\ local' = [local EXCEPT !.volume = ExtractVolume(record)]
            /\ pc' = "pr_volume"
            /\ obs_seq' = [obs_seq EXCEPT ![sym].n = @ + 1]
            /\ UNCHANGED <<record, pre>>
       ELSE /\ UNCHANGED <<symbols_data, obs_seq>>
            /\ local' = LocalInit
            /\ record' = NoRecord
            /\ pre' = PreNone
            /\ pc' = "consume"
    /\ UNCHANGED <<feed_status, iid_to_symbol, candle_history, current_candle,
                   candle_lock, tick_buffer>>
    /\ UNCHANGED <<api_key, sym, exc, now, nrecords, nsessions>>
    /\ UNCHANGED <<committed, uc_outcome, tick_total, applied, rd>>

(* line 128 *)
ProcVolume ==
    /\ pc = "pr_volume"
    /\ symbols_data' = SetQuote(sym, "volume", local.volume)
    /\ pc' = "pr_timestamp"
    /\ UNCHANGED <<feed_status, iid_to_symbol, candle_history, current_candle,
                   candle_lock, tick_buffer>>
    /\ UNCHANGED <<api_key, record, sym, local, exc, now, nrecords, nsessions>>
    /\ UNCHANGED <<ghostvars, rd>>

(* line 129: int(time.time() * 1000) *)
ProcTimestamp(steps, maxTime) ==
    /\ pc = "pr_timestamp"
    /\ \E t \in ClockReadings(steps, maxTime) :
          /\ now' = t
          /\ symbols_data' = SetQuote(sym, "timestamp", t * MsPerSecond)
          /\ obs_seq' = [obs_seq EXCEPT ![sym].log =
                            @ \cup {<<symbols_data[sym].price, symbols_data[sym].volume,
                                      t * MsPerSecond>>}]
    /\ pc' = "pr_last_update"
    /\ UNCHANGED <<feed_status, iid_to_symbol, candle_history, current_candle,
                   candle_lock, tick_buffer>>
    /\ UNCHANGED <<api_key, record, sym, local, exc, nrecords, nsessions>>
    /\ UNCHANGED <<committed, uc_outcome, tick_total, pre, applied, rd>>

(* line 130: time.strftime(..., time.gmtime()), to the second *)
ProcLastUpdate(steps, maxTime) ==
    /\ pc = "pr_last_update"
    /\ \E t \in ClockReadings(steps, maxTime) :
          /\ now' = t
          /\ symbols_data' = SetQuote(sym, "last_update", t)
    /\ pc' = "uc_call"
    /\ UNCHANGED <<feed_status, iid_to_symbol, candle_history, current_candle,
                   candle_lock, tick_buffer>>
    /\ UNCHANGED <<api_key, record, sym, local, exc, nrecords, nsessions>>
    /\ UNCHANGED <<ghostvars, rd>>

(***************************************************************************)
(* update_candle(symbol, price, volume, ts_seconds)                        *)
(***************************************************************************)
(* line 132, the argument int(time.time()), and line 50 *)
UpdateCandleCall(steps, maxTime) ==
    /\ pc = "uc_call"
    /\ \E t \in ClockReadings(steps, maxTime) :
          /\ now' = t
          /\ local' = [local EXCEPT !.ts_seconds = t,
                                    !.candle_time = get_candle_time(t)]
    /\ pc' = "uc_lock"
    /\ UNCHANGED <<shared, api_key, record, sym, exc, nrecords, nsessions>>
    /\ UNCHANGED <<ghostvars, rd>>

Applied(l) == [time |-> l.candle_time, price |-> l.price, size |-> l.volume]

Committed(hist, cur) ==
    [s \in Symbols |-> [hist |-> hist[s], cur |-> cur[s]]]

(* lines 52-61: with candle_lock, the in-candle spike filter (which        *)
(* returns, releasing the lock) and the choice of the branch               *)
UC_Acquire ==
    /\ pc = "uc_lock"
    /\ CandleLockFree
    /\ LET cc == current_candle[sym]
       IN  IF cc # <<>> /\ cc[1].time = local.candle_time /\ InCandleSpike(cc[1], local.price)
           THEN /\ pc' = "consume"
                /\ uc_outcome' = "discard"
                /\ local' = LocalInit
                /\ record' = NoRecord
                /\ pre' = PreNone
                /\ UNCHANGED candle_lock
           ELSE /\ candle_lock' = "feed"
                /\ pc' = IF cc = <<>> THEN "uc_new"
                         ELSE IF cc[1].time # local.candle_time THEN "uc_append"
                         ELSE "uc_high"
                /\ UNCHANGED <<uc_outcome, local, record, pre>>
    /\ UNCHANGED <<symbols_data, feed_status, iid_to_symbol, candle_history,
                   current_candle, tick_buffer>>
    /\ UNCHANGED <<api_key, sym, exc, now, nrecords, nsessions>>
    /\ UNCHANGED <<committed, obs_seq, tick_total, applied, rd>>

(* line 63 *)
UC_Append ==
    /\ pc = "uc_append"
    /\ candle_history' = [candle_history EXCEPT
                             ![sym] = DequeAppend(@, current_candle[sym][1], CandleMaxLen)]
    /\ pc' = "uc_new"
    /\ UNCHANGED <<symbols_data, feed_status, iid_to_symbol, current_candle,
                   candle_lock, tick_buffer>>
    /\ UNCHANGED <<feedrest, ghostvars, rd>>

(* lines 64-69, and the end of the with block *)
UC_New ==
    /\ pc = "uc_new"
    /\ current_candle' = [current_candle EXCEPT
                             ![sym] = <<NewCandle(local.candle_time, local.price, local.volume)>>]
    /\ candle_lock' = "free"
    /\ committed' = Committed(candle_history, current_candle')
    /\ uc_outcome' = IF current_candle[sym] = <<>> THEN "first" ELSE "rollover"
    /\ pc' = "tb_append"
    /\ UNCHANGED <<symbols_data, feed_status, iid_to_symbol, candle_history, tick_buffer>>
    /\ applied' = [applied EXCEPT ![sym] = Append(@, Applied(local))]
    /\ UNCHANGED <<feedrest, obs_seq, tick_total, pre, rd>>

SetCandle(s, field, v) == [current_candle EXCEPT ![s][1][field] = v]

(* line 71 *)
UC_High ==
    /\ pc = "uc_high"
    /\ current_candle' = SetCandle(sym, "high", NewHigh(current_candle[sym][1], local.price))
    /\ pc' = "uc_low"
    /\ UNCHANGED <<symbols_data, feed_status, iid_to_symbol, candle_history,
                   candle_lock, tick_buffer>>
    /\ UNCHANGED <<feedrest, ghostvars, rd>>

(* line 72 *)
UC_Low ==
    /\ pc = "uc_low"
    /\ current_candle' = SetCandle(sym, "low", NewLow(current_candle[sym][1], local.price))
    /\ pc' = "uc_close"
    /\ UNCHANGED <<symbols_data, feed_status, iid_to_symbol, candle_history,
                   candle_lock, tick_buffer>>
    /\ UNCHANGED <<feedrest, ghostvars, rd>>

(* line 73 *)
UC_Close ==
    /\ pc = "uc_close"
    /\ current_candle' = SetCandle(sym, "close", local.price)
    /\ pc' = "uc_volume"
    /\ UNCHANGED <<symbols_data, feed_status, iid_to_symbol, candle_history,
                   candle_lock, tick_buffer>>
    /\ UNCHANGED <<feedrest, ghostvars, rd>>

(* line 74 *)
UC_Volume ==
    /\ pc = "uc_volume"
    /\ current_candle' = SetCandle(sym, "volume",
                                   current_candle[sym][1].volume + VolumeOr1(local.volume))
    /\ pc' = "uc_tick_count"
    /\ UNCHANGED <<symbols_data, feed_status, iid_to_symbol, candle_history,
                   candle_lock, tick_buffer>>
    /\ UNCHANGED <<feedrest, ghostvars, rd>>

(* line 75, and the end of the with block *)
UC_TickCount ==
    /\ pc = "uc_tick_count"
    /\ current_candle' = SetCandle(sym, "tick_count", current_candle[sym][1].tick_count + 1)
    /\ candle_lock' = "free"
    /\ committed' = Committed(candle_history, current_candle')
    /\ uc_outcome' = "update"
    /\ pc' = "tb_append"
    /\ UNCHANGED <<symbols_data, feed_status, iid_to_symbol, candle_history, tick_buffer>>
    /\ applied' = [applied EXCEPT ![sym] = Append(@, Applied(local))]
    /\ UNCHANGED <<feedrest, obs_seq, tick_total, pre, rd>>

(* lines 78-83: with tick_lock, one append.  Every critical section of     *)
(* tick_lock is a single step of its thread, so the lock is never seen     *)
(* held and is not a variable.                                             *)
TB_Append ==
    /\ pc = "tb_append"
    /\ tick_buffer' = [tick_buffer EXCEPT
                          ![sym] = DequeAppend(@, NewTick(local.ts_seconds, local.price,
                                                          local.volume), TickMaxLen)]
    /\ tick_total' = [tick_total EXCEPT ![sym] = @ + 1]
    /\ pc' = "consume"
    /\ local' = LocalInit
    /\ record' = NoRecord
    /\ pre' = PreNone
    /\ UNCHANGED <<symbols_data, feed_status, iid_to_symbol, candle_history,
                   current_candle, candle_lock>>
    /\ UNCHANGED <<api_key, sym, exc, now, nrecords, nsessions>>
    /\ UNCHANGED <<committed, uc_outcome, obs_seq, applied, rd>>

(***************************************************************************)
(* The feed thread.                                                        *)
(***************************************************************************)
(* the while True loop of run_live_feed, lines 144-207 *)
Supervisor(R, maxRecords, maxSessions) ==
    \/ Connect(maxSessions)
    \/ SetConnected
    \/ ClearError
    \/ NextRecord(R, maxRecords)
    \/ StreamError
    \/ StreamEnd
    \/ ExceptConnected
    \/ ExceptError
    \/ Sleep

ProcessRecord(steps, maxTime) ==
    \/ ProcQuote
    \/ ProcAsk
    \/ ProcFilter
    \/ ProcVolume
    \/ ProcTimestamp(steps, maxTime)
    \/ ProcLastUpdate(steps, maxTime)

UpdateCandle(steps, maxTime) ==
    \/ UpdateCandleCall(steps, maxTime)
    \/ UC_Acquire
    \/ UC_Append
    \/ UC_New
    \/ UC_High
    \/ UC_Low
    \/ UC_Close
    \/ UC_Volume
    \/ UC_TickCount
    \/ TB_Append

(***************************************************************************)
(* Spec: the feed thread alone, from construction.                         *)
(***************************************************************************)
Px(points) == points * Unit

NQ_HINT == <<"N", "Q", "Z", "5">>
MNQ_HINT == <<"M", "N", "Q", "Z", "5">>
NQ_CONT == <<"N", "Q", ".", "c", ".", "0">>
MNQ_CONT == <<"M", "N", "Q", ".", "c", ".", "0">>

(* instrument 42 trades 15000, 15020, 15040 (quote too wide) and 15100;    *)
(* instrument 7 carries a quote only, mid 14990.125                        *)
FeedRecords ==
    {MappingMsg(42, NQ_CONT), MappingMsg(42, MNQ_CONT)}
    \cup {Mbp1Msg(42, NQ_HINT, Px(15000), Px(14999), Px(15001), 2),
          Mbp1Msg(42, NQ_HINT, Px(15020), Px(15019), Px(15021), 0),
          Mbp1Msg(42, NQ_HINT, Px(15040), Px(15030), Px(15045), 1),
          Mbp1Msg(42, MNQ_HINT, Px(15100), Px(15099), Px(15101), 1),
          Mbp1Msg(7, MNQ_HINT, 0, Px(14990), Px(14990) + Unit \div 4, 3)}

Next ==
    \/ CheckKey
    \/ Supervisor(FeedRecords, MaxRecords, MaxSessions)
    \/ ProcessRecord(ClockSteps, MaxTime)
    \/ UpdateCandle(ClockSteps, MaxTime)

Spec == Init /\ [][Next]_vars

(***************************************************************************)
(* The HTTP handlers.  One request is in progress at a time in the model;  *)
(* handlers share nothing with each other but the locks.                   *)
(***************************************************************************)
Other(symbol) == IF symbol = "NQ" THEN "MNQ" ELSE "NQ"

NeedsFallback_AtMostOne(items) == Len(items) <= 1

NeedsFallback(items) == Len(items) = 0

(* seq[start:] of Python *)
PySliceFrom(seq, start) ==
    LET n == Len(seq)
        from == IF start < 0 THEN Max(n + start, 0) ELSE Min(start, n)
    IN  SubSeq(seq, from + 1, n)

(* lines 296-297 and 324-325 *)
Truncate(items, limit) ==
    IF Len(items) > limit THEN PySliceFrom(items, -limit) ELSE items

RdUnchanged == UNCHANGED <<symbols_data, feed_status, iid_to_symbol, candle_history,
                           current_candle, tick_buffer, feedvars, ghostvars>>

(* get_candles, lines 277-281 *)
GC_Start(limits, maxRequests) ==
    /\ rd.pc = "idle"
    /\ rd.nreq < maxRequests
    /\ \E symbol \in Symbols, limit \in limits :
          rd' = [rd EXCEPT !.pc = "gc_lock", !.symbol = symbol, !.req_limit = limit,
                           !.limit = Min(limit, CandleLimitMax)]
    /\ UNCHANGED candle_lock
    /\ RdUnchanged

(* lines 283-284 *)
GC_Acquire ==
    /\ rd.pc = "gc_lock"
    /\ CandleLockFree
    /\ candle_lock' = "reader"
    /\ rd' = [rd EXCEPT !.pc = "gc_current",
                        !.candles = candle_history[rd.symbol],
                        !.src = rd.symbol,
                        !.expect = committed[rd.symbol].hist \o committed[rd.symbol].cur,
                        !.empty_hist = (candle_history[rd.symbol] = <<>>)]
    /\ RdUnchanged

(* lines 285-286, the end of the with block, and the test of line 289 *)
GC_Current ==
    /\ rd.pc = "gc_current"
    /\ LET candles == rd.candles \o current_candle[rd.symbol]
       IN  rd' = [rd EXCEPT !.candles = candles,
                            !.first_empty = (candles = <<>>),
                            !.pc = IF NeedsFallback(candles) THEN "gc_fb_lock" ELSE "gc_slice"]
    /\ candle_lock' = "free"
    /\ RdUnchanged

(* lines 290-292 *)
GC_FallbackAcquire ==
    /\ rd.pc = "gc_fb_lock"
    /\ CandleLockFree
    /\ candle_lock' = "reader"
    /\ rd' = [rd EXCEPT !.pc = "gc_fb_current",
                        !.candles = candle_history[Other(rd.symbol)],
                        !.src = Other(rd.symbol),
                        !.expect = committed[Other(rd.symbol)].hist
                                   \o committed[Other(rd.symbol)].cur]
    /\ RdUnchanged

(* lines 293-294 and the end of the with block *)
GC_FallbackCurrent ==
    /\ rd.pc = "gc_fb_current"
    /\ rd' = [rd EXCEPT !.candles = rd.candles \o current_candle[Other(rd.symbol)],
                        !.pc = "gc_slice"]
    /\ candle_lock' = "free"
    /\ RdUnchanged

(* lines 296-297 *)
GC_Slice ==
    /\ rd.pc = "gc_slice"
    /\ rd' = [rd EXCEPT !.full = rd.candles,
                        !.candles = Truncate(rd.candles, rd.limit),
                        !.pc = "gc_return"]
    /\ UNCHANGED candle_lock
    /\ RdUnchanged

(* lines 299-304 *)
GC_Return ==
    /\ rd.pc = "gc_return"
    /\ rd' = [RdIdle EXCEPT !.nreq = rd.nreq + 1]
    /\ UNCHANGED candle_lock
    /\ RdUnchanged

(* get_ticks, lines 310-314 *)
GT_Start(limits, maxRequests) ==
    /\ rd.pc = "idle"
    /\ rd.nreq < maxRequests
    /\ \E symbol \in Symbols, limit \in limits :
          rd' = [rd EXCEPT !.pc = "gt_read", !.symbol = symbol, !.req_limit = limit,
                           !.limit = Min(limit, TickLimitMax)]
    /\ UNCHANGED candle_lock
    /\ RdUnchanged

(* lines 316-319 *)
GT_Read ==
    /\ rd.pc = "gt_read"
    /\ rd' = [rd EXCEPT !.ticks = tick_buffer[rd.symbol],
                        !.src = rd.symbol,
                        !.first_empty = (tick_buffer[rd.symbol] = <<>>),
                        !.pc = IF NeedsFallback(tick_buffer[rd.symbol])
                               THEN "gt_fallback" ELSE "gt_slice"]
    /\ UNCHANGED candle_lock
    /\ RdUnchanged

(* lines 320-322 *)
GT_Fallback ==
    /\ rd.pc = "gt_fallback"
    /\ rd' = [rd EXCEPT !.ticks = tick_buffer[Other(rd.symbol)],
                        !.src = Other(rd.symbol),
                        !.pc = "gt_slice"]
    /\ UNCHANGED candle_lock
    /\ RdUnchanged

(* lines 324-325 *)
GT_Slice ==
    /\ rd.pc = "gt_slice"
    /\ rd' = [rd EXCEPT !.full = rd.ticks,
                        !.ticks = Truncate(rd.ticks, rd.limit),
                        !.pc = "gt_return"]
    /\ UNCHANGED candle_lock
    /\ RdUnchanged

(* lines 327-331 *)
GT_Return ==
    /\ rd.pc = "gt_return"
    /\ rd' = [RdIdle EXCEPT !.nreq = rd.nreq + 1]
    /\ UNCHANGED candle_lock
    /\ RdUnchanged

GetCandles(limits, maxRequests) ==
    \/ GC_Start(limits, maxRequests)
    \/ GC_Acquire
    \/ GC_Current
    \/ GC_FallbackAcquire
    \/ GC_FallbackCurrent
    \/ GC_Slice
    \/ GC_Return

GetTicks(limits, maxRequests) ==
    \/ GT_Start(limits, maxRequests)
    \/ GT_Read
    \/ GT_Fallback
    \/ GT_Slice
    \/ GT_Return

(* get_live_price with ?symbol=NQ or MNQ, lines 257-271: the reply is      *)
(* built one dict entry after the other, each read of symbols_data and     *)
(* feed_status a step of its own, without a lock                           *)
OrElse(x, y) == IF Truthy(x) THEN x ELSE y

GL_Start(maxRequests) ==
    /\ rd.pc = "idle"
    /\ rd.nreq < maxRequests
    /\ \E symbol \in Symbols :
          rd' = [rd EXCEPT !.pc = "gl_price", !.symbol = symbol,
                           !.had_data = (obs_seq[symbol].log # {})]
    /\ UNCHANGED candle_lock
    /\ RdUnchanged

LiveField(field) == OrElse(symbols_data[rd.symbol][field], symbols_data[Other(rd.symbol)][field])

(* line 262 *)
GL_Price ==
    /\ rd.pc = "gl_price"
    /\ rd' = [rd EXCEPT !.live.price = LiveField("price"), !.pc = "gl_bid"]
    /\ UNCHANGED candle_lock
    /\ RdUnchanged

(* line 263 *)
GL_Bid ==
    /\ rd.pc = "gl_bid"
    /\ rd' = [rd EXCEPT !.live.bid = LiveField("bid"), !.pc = "gl_ask"]
    /\ UNCHANGED candle_lock
    /\ RdUnchanged

(* line 264 *)
GL_Ask ==
    /\ rd.pc = "gl_ask"
    /\ rd' = [rd EXCEPT !.live.ask = LiveField("ask"), !.pc = "gl_volume"]
    /\ UNCHANGED candle_lock
    /\ RdUnchanged

(* line 265 *)
GL_Volume ==
    /\ rd.pc = "gl_volume"
    /\ rd' = [rd EXCEPT !.live.volume = symbols_data[rd.symbol].volume,
                        !.pc = "gl_timestamp"]
    /\ UNCHANGED candle_lock
    /\ RdUnchanged

(* line 266 *)
GL_Timestamp ==
    /\ rd.pc = "gl_timestamp"
    /\ rd' = [rd EXCEPT !.live.timestamp = LiveField("timestamp"),
                        !.pc = "gl_connected"]
    /\ UNCHANGED candle_lock
    /\ RdUnchanged

(* line 268 *)
GL_Connected ==
    /\ rd.pc = "gl_connected"
    /\ rd' = [rd EXCEPT !.live.connected = feed_status.connected, !.pc = "gl_last_update"]
    /\ UNCHANGED candle_lock
    /\ RdUnchanged

(* line 269 *)
GL_LastUpdate ==
    /\ rd.pc = "gl_last_update"
    /\ rd' = [rd EXCEPT !.live.last_update = LiveField("last_update"), !.pc = "gl_error"]
    /\ UNCHANGED candle_lock
    /\ RdUnchanged

(* line 270 *)
GL_Error ==
    /\ rd.pc = "gl_error"
    /\ rd' = [rd EXCEPT !.live.error = feed_status.error, !.pc = "gl_return"]
    /\ UNCHANGED candle_lock
    /\ RdUnchanged

(* line 260, jsonify and return *)
GL_Return ==
    /\ rd.pc = "gl_return"
    /\ rd' = [RdIdle EXCEPT !.nreq = rd.nreq + 1]
    /\ UNCHANGED candle_lock
    /\ RdUnchanged

GetLive(maxRequests) ==
    \/ GL_Start(maxRequests)
    \/ GL_Price
    \/ GL_Bid
    \/ GL_Ask
    \/ GL_Volume
    \/ GL_Timestamp
    \/ GL_Connected
    \/ GL_LastUpdate
    \/ GL_Error
    \/ GL_Return

(***************************************************************************)
(* SpecRead: the feed thread and a get_candles or get_ticks request.       *)
(***************************************************************************)
MaxRecordsRead == 2
MaxSessionsRead == 1
MaxTimeRead == 60
MaxRequests == 1

ReadRecords ==
    {Mbp1Msg(42, NQ_HINT, Px(15000), Px(14999), Px(15001), 2),
     Mbp1Msg(42, NQ_HINT, Px(15020), Px(15019), Px(15021), 0),
     Mbp1Msg(7, MNQ_HINT, 0, Px(14990), Px(14990) + Unit \div 4, 3)}

Limits == {0, 1, 2000}

NextRead ==
    \/ CheckKey
    \/ Supervisor(ReadRecords, MaxRecordsRead, MaxSessionsRead)
    \/ ProcessRecord(ClockSteps, MaxTimeRead)
    \/ UpdateCandle(ClockSteps, MaxTimeRead)
    \/ GetCandles(Limits, MaxRequests)
    \/ GetTicks(Limits, MaxRequests)

SpecRead == Init /\ [][NextRead]_vars

(***************************************************************************)
(* SpecLive: the feed thread and a get_live_price request.                 *)
(***************************************************************************)
LiveRecords ==
    {Mbp1Msg(42, NQ_HINT, Px(15000), Px(14999), Px(15001), 2),
     Mbp1Msg(42, NQ_HINT, Px(15020), Px(15019), Px(15021), 0)}

NextLive ==
    \/ CheckKey
    \/ Supervisor(LiveRecords, MaxRecordsRead, MaxSessionsRead)
    \/ ProcessRecord(ClockSteps, MaxTimeRead)
    \/ UpdateCandle(ClockSteps, MaxTimeRead)
    \/ GetLive(MaxRequests)

SpecLive == Init /\ [][NextLive]_vars

(***************************************************************************)
(* SpecFull: the feed thread, from the state the server is in once both    *)
(* rings are full.  The state is the one reached when instrument 42 (NQ)   *)
(* has traded at 15000.00, size 1, TicksPerMinute times in each of the     *)
(* minutes 0..WarmMinutes, evenly spaced, and the session is still open:   *)
(* the history holds the last CandleMaxLen completed minutes, the tick     *)
(* buffer the last TickMaxLen trades.  nrecords and nsessions count from   *)
(* this state on, and so does applied.                                     *)
(***************************************************************************)
WarmMinutes == 1441
TicksPerMinute == 7
FullHorizon == 50
MaxRecordsFull == 2
MaxSessionsFull == 1

WarmPrice == ToCents(Px(15000))

WarmTicks == TicksPerMinute * (WarmMinutes + 1)

WarmSecond(g) ==
    CandleSeconds * (g \div TicksPerMinute)
    + (CandleSeconds * (g % TicksPerMinute)) \div TicksPerMinute

WarmEnd == WarmSecond(WarmTicks - 1)

WarmCandle(m) ==
    [NewCandle(CandleSeconds * m, WarmPrice, 1)
        EXCEPT !.volume = TicksPerMinute, !.tick_count = TicksPerMinute]

WarmHistory ==
    SubSeq([i \in 1..CandleMaxLen |-> WarmCandle(WarmMinutes - CandleMaxLen + i - 1)],
           1, CandleMaxLen)

WarmBuffer ==
    SubSeq([i \in 1..TickMaxLen |->
               NewTick(WarmSecond(WarmTicks - TickMaxLen + i - 1), WarmPrice, 1)],
           1, TickMaxLen)

WarmQuote ==
    [price |-> WarmPrice, bid |-> ToCents(Px(14999)), ask |-> ToCents(Px(15001)),
     volume |-> 1, timestamp |-> WarmEnd * MsPerSecond, last_update |-> WarmEnd]

InitFull ==
    /\ symbols_data = [s \in Symbols |-> IF s = "NQ" THEN WarmQuote ELSE LiveQuoteInit]
    /\ feed_status = [connected |-> TRUE, error |-> NoError]
    /\ iid_to_symbol = Put(EmptyMap, 42, "NQ")
    /\ candle_history = [s \in Symbols |-> IF s = "NQ" THEN WarmHistory ELSE <<>>]
    /\ current_candle = [s \in Symbols |-> IF s = "NQ" THEN <<WarmCandle(WarmMinutes)>> ELSE <<>>]
    /\ candle_lock = "free"
    /\ tick_buffer = [s \in Symbols |-> IF s = "NQ" THEN WarmBuffer ELSE <<>>]
    /\ api_key = TRUE
    /\ pc = "consume"
    /\ record = NoRecord
    /\ sym = "NQ"
    /\ local = LocalInit
    /\ exc = NoError
    /\ now = WarmEnd
    /\ nrecords = 0
    /\ nsessions = 0
    /\ committed = Committed(candle_history, current_candle)
    /\ uc_outcome = "update"
    /\ obs_seq = [s \in Symbols |->
                    IF s = "NQ"
                    THEN [n |-> WarmTicks,
                          log |-> {<<WarmPrice, 1, WarmEnd * MsPerSecond>>}]
                    ELSE [n |-> 0, log |-> {}]]
    /\ tick_total = [s \in Symbols |-> IF s = "NQ" THEN WarmTicks ELSE 0]
    /\ pre = PreNone
    /\ applied = [s \in Symbols |-> <<>>]
    /\ rd = RdIdle

FullRecords ==
    {Mbp1Msg(42, NQ_HINT, Px(15020), Px(15019), Px(15021), 0),
     Mbp1Msg(7, MNQ_HINT, 0, Px(14990), Px(14990) + Unit \div 4, 3)}

NextFull ==
    \/ Supervisor(FullRecords, MaxRecordsFull, MaxSessionsFull)
    \/ ProcessRecord(ClockSteps, WarmEnd + FullHorizon)
    \/ UpdateCandle(ClockSteps, WarmEnd + FullHorizon)

SpecFull == InitFull /\ [][NextFull]_vars

(***************************************************************************)
(* SpecLoop: the feed thread with no bound on the connect attempts, under  *)
(* the scheduling the program has: the worker thread keeps running (weak   *)
(* fairness of its steps), and the transport accepts a session again and   *)
(* again (strong fairness of the successful connect).                      *)
(***************************************************************************)
MaxRecordsLoop == 2
MaxTimeLoop == 60

Reconnect(ok) == ConnectStep(ok) /\ UNCHANGED nsessions

NextLoop ==
    \/ CheckKey
    \/ \E ok \in BOOLEAN : Reconnect(ok)
    \/ SetConnected
    \/ ClearError
    \/ NextRecord(ReadRecords, MaxRecordsLoop)
    \/ StreamError
    \/ StreamEnd
    \/ ExceptConnected
    \/ ExceptError
    \/ Sleep
    \/ ProcessRecord(ClockSteps, MaxTimeLoop)
    \/ UpdateCandle(ClockSteps, MaxTimeLoop)

SpecLoop ==
    /\ Init
    /\ [][NextLoop]_vars
    /\ WF_vars(NextLoop)
    /\ SF_vars(Reconnect(TRUE))

(***************************************************************************)
(* SpecFilter: the feed thread on records at the boundaries of the filters *)
(* of process_record: spread 9.75, exactly 10 and negative, a side at the  *)
(* floor 1000, trades 50 and 50.25 away from the previous price.           *)
(***************************************************************************)
MaxRecordsFilter == 3
MaxSessionsFilter == 2
MaxTimeFilter == 60

Quarter == Unit \div 4

FilterRecords ==
    {Mbp1Msg(42, NQ_HINT, Px(15000), Px(14995), Px(15005) - Quarter, 1),
     Mbp1Msg(42, NQ_HINT, Px(15050), Px(15045), Px(15055), 1),
     Mbp1Msg(42, NQ_HINT, Px(15050) + Quarter, Px(1000), Px(1000) + Quarter, 1),
     Mbp1Msg(42, NQ_HINT, 0, Px(15001), Px(15000), 0),
     Mbp1Msg(42, NQ_HINT, Px(14950), 0, Px(14950), 2)}

NextFilter ==
    \/ CheckKey
    \/ Supervisor(FilterRecords, MaxRecordsFilter, MaxSessionsFilter)
    \/ ProcessRecord(ClockSteps, MaxTimeFilter)
    \/ UpdateCandle(ClockSteps, MaxTimeFilter)

SpecFilter == Init /\ [][NextFilter]_vars

(***************************************************************************)
(* SpecCandle: the feed thread on NQ trades at 15000.00, 15001.25,         *)
(* 15002.50 and 15040.00 (which the in-candle guard discards next to the   *)
(* others).  A record is handled within the second in which it arrives:   *)
(* the clock moves, by 10 or 50 seconds, between the records, and the      *)
(* reading of line 132 is the first to see it.                             *)
(***************************************************************************)
MaxRecordsCandle == 3
MaxSessionsCandle == 1
MaxTimeCandle == 70

CandleSteps == {10, 50}

CandleRecords ==
    {Mbp1Msg(42, NQ_HINT, Px(15000), Px(15000) - Quarter, Px(15000) + Quarter, 2),
     Mbp1Msg(42, NQ_HINT, Px(15001) + Quarter, 0, 0, 0),
     Mbp1Msg(42, NQ_HINT, Px(15002) + 2 * Quarter, 0, 0, 1),
     Mbp1Msg(42, NQ_HINT, Px(15040), 0, 0, 3)}

NextCandle ==
    \/ CheckKey
    \/ Supervisor(CandleRecords, MaxRecordsCandle, MaxSessionsCandle)
    \/ ProcessRecord({}, MaxTimeCandle)
    \/ UpdateCandle(CandleSteps, MaxTimeCandle)

SpecCandle == Init /\ [][NextCandle]_vars

(***************************************************************************)
(* Properties.                                                             *)
(***************************************************************************)
AllCandles(s) == candle_history[s] \o current_candle[s]

(* C1: once iid_to_symbol holds a symbol for an instrument id, no later     *)
(* record changes that id's entry to a different symbol.                    *)
C1_MappingSticky ==
    [][\A i \in DOMAIN iid_to_symbol :
          i \in DOMAIN iid_to_symbol' /\ iid_to_symbol'[i] = iid_to_symbol[i]]_vars

QuoteFields(q) == <<q.price, q.bid, q.ask, q.volume, q.timestamp>>

(* C2: when process_record rejects a record by the cross-tick spike rule,   *)
(* the symbol's LiveQuote (price, bid, ask, volume, timestamp), its          *)
(* in-progress candle, its candle history and its tick buffer are the same  *)
(* after the record as before it.                                           *)
C2_SpikeRejectChangesNothing ==
    [][(/\ pc = "pr_filter"
        /\ PricePlausible(local.price)
        /\ IsSpike(local.price, symbols_data[sym].price)
        /\ pc' = "consume")
       => (/\ QuoteFields(symbols_data'[sym]) = QuoteFields(pre.quote)
           /\ current_candle'[sym] = pre.cur
           /\ candle_history'[sym] = pre.hist
           /\ tick_buffer'[sym] = pre.ticks)]_vars

(* C3: between records, the number of ticks ever appended for a symbol     *)
(* equals the number of observations process_record accepted for it.        *)
C3_TickPerAcceptedObservation ==
    pc = "consume" => \A s \in Symbols : tick_total[s] = obs_seq[s].n

(* C4: every candle, in progress or in the history, has                     *)
(* low <= min(open, close) and high >= max(open, close).                    *)
CandleWellFormed(c) ==
    /\ c.low <= Min(c.open, c.close)
    /\ c.high >= Max(c.open, c.close)
    /\ c.low <= c.high

C4_CandleRange ==
    \A s \in Symbols :
        \A i \in 1..Len(AllCandles(s)) : CandleWellFormed(AllCandles(s)[i])

(* a completed candle that a same-bucket update has widened *)
C4_Witness ==
    \E s \in Symbols :
        \E i \in 1..Len(candle_history[s]) :
            /\ candle_history[s][i].tick_count >= 2
            /\ candle_history[s][i].high > candle_history[s][i].low

(* C5: for a symbol that has an in-progress candle, a call of               *)
(* update_candle appends that candle to the history and starts a new        *)
(* in-progress candle if and only if floor(t / 60) of the new observation   *)
(* differs from the candle's bucket; with equal buckets the history is      *)
(* unchanged and the in-progress candle keeps its bucket start and open.    *)
UpdateCandleReturns ==
    /\ pc \in {"uc_lock", "uc_new", "uc_tick_count"}
    /\ pc' \in {"tb_append", "consume"}

RolledOver(s) ==
    /\ candle_history'[s] # committed[s].hist
    /\ candle_history'[s][Len(candle_history'[s])] = committed[s].cur[1]
    /\ current_candle'[s][1].time # committed[s].cur[1].time
    /\ current_candle'[s][1].tick_count = 1

C5_RolloverIffBucketDiffers ==
    [][(UpdateCandleReturns /\ committed[sym].cur # <<>>)
       => LET old == committed[sym].cur[1]
              differs == (local.ts_seconds \div 60) # (old.time \div 60)
          IN  /\ differs <=> RolledOver(sym)
              /\ ~differs => /\ candle_history'[sym] = committed[sym].hist
                             /\ current_candle'[sym][1].time = old.time
                             /\ current_candle'[sym][1].open = old.open]_vars

(* a rollover has just completed a candle that had a same-bucket update *)
C5_Witness ==
    /\ pc = "tb_append"
    /\ uc_outcome = "rollover"
    /\ candle_history[sym][Len(candle_history[sym])].tick_count >= 2

(* C6: a candle history never holds more than 1440 candles and a tick     *)
(* buffer never more than 10000 ticks; an append at capacity removes       *)
(* exactly the oldest element, keeps the others in order and puts the new  *)
(* element last.                                                           *)
WithinCapacity(hist, ticks) ==
    \A s \in Symbols : Len(hist[s]) <= CandleMaxLen /\ Len(ticks[s]) <= TickMaxLen

AppendedTo(before, after, x, capacity) ==
    IF Len(before) = capacity
    THEN /\ Len(after) = capacity
         /\ \A i \in 1..(capacity - 1) : after[i] = before[i + 1]
         /\ after[capacity] = x
    ELSE after = Append(before, x)

C6_BoundedRings ==
    [][/\ WithinCapacity(candle_history, tick_buffer)
       /\ WithinCapacity(candle_history', tick_buffer')
       /\ pc = "uc_append" =>
             AppendedTo(candle_history[sym], candle_history'[sym],
                        current_candle[sym][1], CandleMaxLen)
       /\ pc = "tb_append" =>
             AppendedTo(tick_buffer[sym], tick_buffer'[sym],
                        [time |-> local.ts_seconds, price |-> local.price,
                         volume |-> IF local.volume = 0 THEN 1 ELSE local.volume],
                        TickMaxLen)]_vars

(* both rings of NQ have evicted their oldest element *)
C6_Witness ==
    /\ Len(candle_history["NQ"]) = CandleMaxLen
    /\ candle_history["NQ"][1].time > CandleSeconds * (WarmMinutes - CandleMaxLen)
    /\ candle_history["NQ"][CandleMaxLen].time = CandleSeconds * WarmMinutes
    /\ Len(tick_buffer["NQ"]) = TickMaxLen
    /\ tick_buffer["NQ"][1].time > WarmSecond(WarmTicks - TickMaxLen)
    /\ tick_buffer["NQ"][TickMaxLen].time > WarmEnd

(* C7: whatever the interleaving of update_candle with get_candles, the    *)
(* list get_candles has read is history ++ [in-progress candle] of one     *)
(* symbol as update_candle left it at one instant: every candle in it is   *)
(* as it was before or after a whole call, never in between.               *)
C7_SnapshotUnderLock ==
    rd.pc \in {"gc_fb_lock", "gc_slice"} => rd.candles = rd.expect

(* get_candles holds its copy while update_candle is halfway through the   *)
(* same symbol's candle, which by now differs from the copy                *)
C7_Witness ==
    /\ rd.pc = "gc_slice"
    /\ rd.candles # <<>>
    /\ rd.src = sym
    /\ pc \in {"uc_low", "uc_close", "uc_new"}
    /\ rd.candles # AllCandles(rd.src)

(* C8: the price, volume and timestamp that get_live_price returns for a   *)
(* symbol that has data were all written by one and the same accepted      *)
(* observation of that symbol.                                             *)
C8_LiveReplyFromOneObservation ==
    (rd.pc = "gl_return" /\ rd.had_data)
    => <<rd.live.price, rd.live.volume, rd.live.timestamp>> \in obs_seq[rd.symbol].log

(* C9: get_candles returns the last min(n, clamp(limit, 0, 1440)) elements *)
(* of the n-element list it read, in order; get_ticks likewise with 10000. *)
Clamp(x, lo, hi) == Max(lo, Min(x, hi))

LastN(seq, k) == [i \in 1..k |-> seq[Len(seq) - k + i]]

C9_LimitClamped ==
    /\ rd.pc = "gc_return" =>
          rd.candles = LastN(rd.full, Min(Len(rd.full), Clamp(rd.req_limit, 0, 1440)))
    /\ rd.pc = "gt_return" =>
          rd.ticks = LastN(rd.full, Min(Len(rd.full), Clamp(rd.req_limit, 0, 10000)))

(* C10, as stated: get_candles serves the other symbol's candles exactly   *)
(* when the requested symbol's history is empty, get_ticks exactly when    *)
(* its tick buffer is empty.                                               *)
C10_FallbackWhenHistoryEmpty ==
    /\ rd.pc = "gc_slice" => (rd.src = Other(rd.symbol) <=> rd.empty_hist)
    /\ rd.pc = "gt_slice" => (rd.src = Other(rd.symbol) <=> rd.first_empty)

(* C10, amended: get_candles serves the other symbol's candles exactly     *)
(* when the requested symbol had neither a completed nor an in-progress    *)
(* candle when the handler first took the lock, and the requested symbol's *)
(* own candles otherwise; get_ticks likewise on the tick buffers.  What    *)
(* the first read found decides, whatever the feed does before the second. *)
IsPrefix(a, b) == Len(a) <= Len(b) /\ a = SubSeq(b, 1, Len(a))

C10_FallbackWhenNothingRead ==
    /\ rd.pc = "gc_slice" =>
          /\ rd.src = Other(rd.symbol) <=> rd.first_empty
          /\ rd.candles = rd.expect
    /\ rd.pc = "gt_slice" =>
          /\ rd.src = Other(rd.symbol) <=> rd.first_empty
          /\ IsPrefix(rd.ticks, tick_buffer[rd.src])

(* the other symbol's candles are being served although the requested      *)
(* symbol has got its first candle since the handler looked                *)
C10_Witness ==
    /\ rd.pc = "gc_slice"
    /\ rd.src = Other(rd.symbol)
    /\ rd.candles # <<>>
    /\ AllCandles(rd.symbol) # <<>>

(* C11: the worker moves to a connect attempt only from the start of     *)
(* run_live_feed (the very first attempt) or from the backoff sleep, and   *)
(* when it comes from the sleep the handler has set connected to false    *)
(* and recorded an error: every end of a session, the end of the record   *)
(* stream included, is followed by the backoff before the next attempt.   *)
C11_BackoffBeforeReconnect ==
    [][(pc' = "connect" /\ pc # "connect")
       => \/ pc = "start"
          \/ /\ pc = "sleep"
             /\ ~feed_status.connected
             /\ feed_status.error # NoError]_vars

Down == ~feed_status.connected /\ feed_status.error # NoError

Up == feed_status.connected /\ feed_status.error = NoError

ReadErrorRaised == pc = "except" /\ exc = "read error"

(* C12: once the handler has recorded a read error, FeedHealth is         *)
(* connected=false with a non-null error in every state until the state   *)
(* with connected=true and error=null, which the worker reaches again.     *)
C12_DownUntilUp ==
    /\ [][(pc = "except_error" /\ exc = "read error") => Down']_vars
    /\ [][(Down /\ feed_status.error = "read error") => (Down' \/ Up')]_vars
    /\ (ReadErrorRaised ~> Up)

(* C13: with no credential the worker records the error and returns: it   *)
(* never attempts to connect and takes no further step; from then on       *)
(* connected is false, the error is the one recorded, the LiveQuotes, the  *)
(* candles, the ticks and the mapping are as constructed, and a request    *)
(* to get_candles or get_ticks can always take its next step.              *)
WorkerStep ==
    \/ CheckKey
    \/ Supervisor(ReadRecords, MaxRecordsRead, MaxSessionsRead)
    \/ ProcessRecord(ClockSteps, MaxTimeRead)
    \/ UpdateCandle(ClockSteps, MaxTimeRead)

HandlerStep == GetCandles(Limits, MaxRequests) \/ GetTicks(Limits, MaxRequests)

C13_MissingKeyIsFatalToWorkerOnly ==
    ~api_key =>
        /\ pc \in {"start", "exit"}
        /\ nsessions = 0
        /\ feed_status = [connected |-> FALSE,
                          error |-> IF pc = "exit" THEN KeyError ELSE NoError]
        /\ symbols_data = [s \in Symbols |-> LiveQuoteInit]
        /\ iid_to_symbol = EmptyMap
        /\ \A s \in Symbols : AllCandles(s) = <<>> /\ tick_buffer[s] = <<>>
        /\ candle_lock # "feed"
        /\ pc = "exit" =>
              /\ ~ENABLED WorkerStep
              /\ (rd.pc # "idle" \/ rd.nreq < MaxRequests) => ENABLED HandlerStep

(* a request has been answered, with nothing, after the worker returned   *)
C13_Witness ==
    /\ ~api_key
    /\ pc = "exit"
    /\ rd.pc \in {"gc_return", "gt_return"}
    /\ rd.candles = <<>> /\ rd.ticks = <<>>

(* C14: when process_record has handled the levels of a record, the      *)
(* symbol's stored bid and ask are the record's pair (rounded to cents)    *)
(* if both sides exceed 1000 and ask - bid < 10, and the price of a        *)
(* record that has no trade price is then the mid; otherwise the stored    *)
(* bid and ask are what they were before the record and the record has no  *)
(* price from its quote.                                                   *)
PairPasses(b, a) == b > 1000 * Unit /\ a > 1000 * Unit /\ a - b < 10 * Unit

HasTradePrice(r) == r.price > 1000 * Unit

C14_QuoteSpreadFilter ==
    (pc = "pr_filter" /\ record.has_levels) =>
        LET b == record.levels[1].bid_px
            a == record.levels[1].ask_px
            sd == symbols_data[sym]
        IN  IF PairPasses(b, a)
            THEN /\ sd.bid = ToCents(b) /\ sd.ask = ToCents(a)
                 /\ ~HasTradePrice(record) => local.price = MidToCents(b, a)
            ELSE /\ sd.bid = pre.quote.bid /\ sd.ask = pre.quote.ask
                 /\ ~HasTradePrice(record) => local.price = None

(* a pair with a spread of exactly 10 has left an earlier stored pair in   *)
(* place                                                                   *)
C14_Witness ==
    /\ pc = "pr_filter"
    /\ record.levels[1].ask_px - record.levels[1].bid_px = 10 * Unit
    /\ record.levels[1].bid_px > 1000 * Unit
    /\ pre.quote.bid # None
    /\ symbols_data[sym].bid = pre.quote.bid
    /\ symbols_data[sym].bid # ToCents(record.levels[1].bid_px)

(* C15: process_record accepts the price p of a record (stores it as the  *)
(* symbol's price and goes on to the candle) if and only if p exceeds 1000 *)
(* and the symbol has no previous price or |p - prev| <= 50; a rejected    *)
(* record leaves the price as it was.  The stored price changes at no      *)
(* other step, so two consecutively accepted prices of a symbol differ by  *)
(* at most 50, whichever sessions they were accepted in.                   *)
C15_SpikeThreshold ==
    [][/\ pc = "pr_filter" =>
             LET p == local.price
                 prev == symbols_data[sym].price
                 accepted == pc' = "pr_volume" /\ symbols_data'[sym].price = p
             IN  /\ accepted <=> /\ p # None /\ p > 1000 * Cent
                                 /\ prev = None \/ Abs(p - prev) <= 50 * Cent
                 /\ ~accepted => pc' = "consume" /\ symbols_data'[sym].price = prev
                 /\ (accepted /\ prev # None)
                       => Abs(symbols_data'[sym].price - prev) <= 50 * Cent
       /\ \A s \in Symbols :
             symbols_data'[s].price # symbols_data[s].price
                => pc = "pr_filter" /\ s = sym /\ obs_seq'[s].n = obs_seq[s].n + 1]_vars

(* a price exactly 50 away from the previous price of the symbol has been  *)
(* accepted, in the session after a reconnect                              *)
C15_Witness ==
    /\ pc = "pr_volume"
    /\ pre.quote.price # None
    /\ nsessions = 2
    /\ Abs(local.price - pre.quote.price) = 50 * Cent
    /\ symbols_data[sym].price = local.price

(* C16: whenever the worker is not inside the critical section of         *)
(* update_candle, every candle of a symbol, completed or in progress,      *)
(* aggregates the observations update_candle applied to its bucket: open   *)
(* is the price of the first, close of the last, high the largest and low  *)
(* the smallest price, tick_count their number and volume the sum of       *)
(* their sizes, a size of 0 counting as 1.                                 *)
RECURSIVE SumSizes(_)
SumSizes(obs) ==
    IF obs = <<>> THEN 0
    ELSE (IF Head(obs).size = 0 THEN 1 ELSE Head(obs).size) + SumSizes(Tail(obs))

InBucket(s, t) == SelectSeq(applied[s], LAMBDA o : o.time = t)

Aggregates(c, obs) ==
    /\ Len(obs) >= 1
    /\ c.open = obs[1].price
    /\ c.close = obs[Len(obs)].price
    /\ \E i \in 1..Len(obs) : c.high = obs[i].price
    /\ \A i \in 1..Len(obs) : c.high >= obs[i].price
    /\ \E i \in 1..Len(obs) : c.low = obs[i].price
    /\ \A i \in 1..Len(obs) : c.low <= obs[i].price
    /\ c.tick_count = Len(obs)
    /\ c.volume = SumSizes(obs)

C16_CandleAggregates ==
    candle_lock # "feed" =>
        \A s \in Symbols :
            \A i \in 1..Len(AllCandles(s)) :
                Aggregates(AllCandles(s)[i], InBucket(s, AllCandles(s)[i].time))

(* 15000.00, 15001.25 and 15002.50 at seconds 10, 20 and 70 *)
C16_Witness ==
    /\ pc = "consume"
    /\ [i \in 1..Len(tick_buffer["NQ"]) |->
           <<tick_buffer["NQ"][i].time, tick_buffer["NQ"][i].price>>]
          = << <<10, 1500000>>, <<20, 1500125>>, <<70, 1500250>> >>
    /\ Len(candle_history["NQ"]) = 1
    /\ LET c == candle_history["NQ"][1]
       IN  /\ <<c.time, c.open, c.high, c.low, c.close>>
                = <<0, 1500000, 1500125, 1500000, 1500125>>
           /\ c.tick_count = 2
    /\ LET c == current_candle["NQ"][1]
       IN  /\ <<c.time, c.open, c.high, c.low, c.close>>
                = <<60, 1500250, 1500250, 1500250, 1500250>>
           /\ c.tick_count = 1

(* C17: in every state every candle, completed or in progress, has        *)
(* volume >= tick_count >= 1, and every tick in a tick buffer has          *)
(* volume >= 1, whatever the sizes of the records (0 included).            *)
C17_VolumeAtLeastTickCount ==
    \A s \in Symbols :
        /\ \A i \in 1..Len(AllCandles(s)) :
              /\ AllCandles(s)[i].tick_count >= 1
              /\ AllCandles(s)[i].volume >= AllCandles(s)[i].tick_count
        /\ \A i \in 1..Len(tick_buffer[s]) : tick_buffer[s][i].volume >= 1

(* a candle of two observations of size 0, and their ticks *)
C17_Witness ==
    \E s \in Symbols :
        /\ current_candle[s] # <<>>
        /\ current_candle[s][1].tick_count = 2
        /\ current_candle[s][1].volume = 2
        /\ Len(tick_buffer[s]) = 2
        /\ \A i \in 1..2 : applied[s][i].size = 0 /\ tick_buffer[s][i].volume = 1

(* C18: while the worker is opening a session and subscribing (also       *)
(* after the record stream of the previous session ended without           *)
(* raising) or sleeping in the backoff, connected is false.                *)
C18_ConnectedOnlyWhileConsuming ==
    pc \in {"connect", "sleep"} => ~feed_status.connected

(* C19: whenever the worker is not inside the critical section of         *)
(* update_candle, the bucket starts of history ++ [in-progress candle] of  *)
(* every symbol are multiples of 60 and strictly increasing; and a step    *)
(* changes a history only by appending the candle that was in progress     *)
(* (dropping the oldest at capacity): the candles already in it stay as    *)
(* they are.                                                               *)
BucketsIncrease(cs) ==
    /\ \A i \in 1..Len(cs) : cs[i].time % 60 = 0
    /\ \A i \in 1..(Len(cs) - 1) : cs[i].time < cs[i + 1].time

OnlyAppended(h, h2, cur) ==
    \/ h2 = h
    \/ /\ cur # <<>>
       /\ h2[Len(h2)] = cur[1]
       /\ IF Len(h) < 1440
          THEN Len(h2) = Len(h) + 1 /\ \A i \in 1..Len(h) : h2[i] = h[i]
          ELSE Len(h2) = 1440 /\ \A i \in 2..1440 : h2[i - 1] = h[i]

C19_BucketsStrictlyIncrease ==
    /\ [](candle_lock # "feed" => \A s \in Symbols : BucketsIncrease(AllCandles(s)))
    /\ [][\A s \in Symbols :
             OnlyAppended(candle_history[s], candle_history'[s], current_candle[s])]_vars

(* a full history whose last candle was completed by a rollover into the  *)
(* bucket now in progress                                                  *)
C19_Witness ==
    /\ candle_lock = "free"
    /\ Len(candle_history["NQ"]) = CandleMaxLen
    /\ candle_history["NQ"][CandleMaxLen].time = CandleSeconds * WarmMinutes
    /\ current_candle["NQ"][1].time = CandleSeconds * (WarmMinutes + 1)

(* C20: whenever the worker is not inside update_candle (and no ring has  *)
(* evicted), the number of ticks in a symbol's tick buffer equals the sum  *)
(* of tick_count over its completed candles and its in-progress candle.    *)
RECURSIVE SumTickCount(_)
SumTickCount(cs) ==
    IF cs = <<>> THEN 0 ELSE Head(cs).tick_count + SumTickCount(Tail(cs))

InUpdateCandle ==
    pc \in {"uc_lock", "uc_append", "uc_new", "uc_high", "uc_low", "uc_close",
            "uc_volume", "uc_tick_count", "tb_append"}

NothingEvicted(s) ==
    /\ tick_total[s] = Len(tick_buffer[s])
    /\ Len(applied[s]) = tick_total[s]

C20_TicksEqualTickCounts ==
    ~InUpdateCandle =>
        \A s \in Symbols :
            NothingEvicted(s) => Len(tick_buffer[s]) = SumTickCount(AllCandles(s))

(* two observations of a symbol are in its candles and its tick buffer,    *)
(* and one that the in-candle guard discarded is in neither                *)
C20_Witness ==
    /\ pc = "consume"
    /\ \E s \in Symbols :
          /\ obs_seq[s].n = 3
          /\ Len(tick_buffer[s]) = 2
          /\ NothingEvicted(s)

====
